---- MODULE Spec2Model ----
(***************************************************************************)
(* The request orchestration engine of the SPV wallet                      *)
(* (spvwallet/requestqueue.go): a RequestQueue, its background worker, the *)
(* sync driver that pushes hashes and clears the queue, the receive path   *)
(* (OnBlockReceived, OnTxReceived) and the request timers.                 *)
(*                                                                         *)
(* Every goroutine is a process with a program counter.  A step is the     *)
(* code between two points where the goroutine can wait: a channel send,   *)
(* a channel receive or a Lock().  A critical section that cannot wait is  *)
(* one step; a mutex held across a wait stays TRUE between the steps.      *)
(*                                                                         *)
(* blocksQueue and blockTxsQueue are channels whose received values are    *)
(* always discarded (`<-queue.blocksQueue`), so they are modelled by their *)
(* length; hashesQueue is a FIFO of hashes.                                *)
(*                                                                         *)
(* The chain state manager (Blockchain: CommitBlock, CommitUnconfirmedTxn,  *)
(* rollbackTo, GetBlockLocatorHashes, CheckProofOfWork) is the second part *)
(* of the module.  Its operations run under the Blockchain's lock; their   *)
(* loops are modelled one iteration a step.  The headers store and the     *)
(* wallet datastore are collaborators whose code is outside the source     *)
(* tree; they are modelled from their interface.                           *)
(***************************************************************************)
EXTENDS Integers, Sequences, FiniteSets, TLC

\* ---------------------------------------------------------------- bounds
\* largest `size` given to NewRequestQueue
MaxSize == 2
\* hashes handed to PushHashes over the whole run
MaxPush == 2
\* direct calls of the exported StartBlockRequest (SpecConc only)
MaxDirect == 1

Hash == {"b1", "b2"}
Tx == {"t1", "t2"}
Peers == {"pA", "pB"}
NoPeer == "nil"

BLOCK == "BLOCK"
TRANSACTION == "TRANSACTION"

\* the goroutines that run StartBlockRequest: the background worker, and in
\* SpecConc one more caller of the exported method
Callers == {"worker", "direct"}

VARIABLES
    \* RequestQueue fields
    size, peer, hashesQueue, blocksQueue, blockTxsQueue,
    blockReqsLock, blockTxsReqsLock,
    blockRequests, blockTxsRequests, blockTxs, finished,
    \* the handler's OnRequestFinished calls and the pool last handed to it
    finishedCalls, lastPool,
    \* StartBlockRequest callers: position, hash and peer arguments
    spc, sHash, sPeer,
    \* PushHashes: position, hashes still to send, hashes accepted so far
    ppc, pHashes, pushed,
    \* OnBlockReceived: position, block hash, txIds, the `request` local
    bpc, bBlock, bTxIds, bRequest,
    \* OnTxReceived: position, the `blockTxsRequest` local, last return value
    tpc, tRequest, tRet,
    \* Clear: position
    cpc,
    \* direct StartBlockRequest calls so far
    directCalls,
    \* history: per hash, StartBlockRequest calls and block slots taken since
    \* the hash last stopped being pending, and whether two calls overlapped
    sbrCalls, sbrSlots, sbrOverlap,
    \* history: per block, the transactions delivered through OnTxReceived
    \* since its transaction group was registered
    delivered,
    \* history: the transactions still awaited by a group that was pending
    \* when Clear was called and that this Clear discarded; whether the last
    \* OnTxReceived call was for one of them
    discarded, tStale,
    \* history: the peer given to the PushHashes call that sent each hash now
    \* in hashesQueue, and the one of the hash each StartBlockRequest caller holds
    hashPeers, sOrigin,
    \* Blockchain: the lock, the headers store (bottom to tip), the datastore
    \* tables and the chain-height marker
    lock, headers, utxos, stxos, txns, proofs, chainHeight,
    \* the Blockchain call in progress: position, header and transactions
    \* left, false positives so far, headers removed by rollbackTo and headers
    \* stored when it began; callbacks started by the call; the last return
    \* value; calls so far
    kpc, kHeader, kTxns, fPositives, kRemoved, kStored, spawned, kRet,
    commits,
    \* history: every CommitBlock so far named a stored header as its previous
    knownPrevious,
    \* history: the transactions of the CommitBlock call that, when they were
    \* committed, had no watched output and no input with a stored UTXO
    unmatched,
    \* GetBlockLocatorHashes: position, ret, parent, step, start
    lpc, ret, parent, step, lStart,
    \* CheckProofOfWork: position, header.Bits, the auxiliary parent-block
    \* hash, the returned error
    wpc, bits, auxHash, powErr

queueVars == <<size, peer, hashesQueue, blocksQueue, blockTxsQueue, blockReqsLock,
               blockTxsReqsLock, blockRequests, blockTxsRequests, blockTxs,
               finished>>
handlerVars == <<finishedCalls, lastPool>>
sbrVars == <<spc, sHash, sPeer>>
pushVars == <<ppc, pHashes, pushed>>
obrVars == <<bpc, bBlock, bTxIds, bRequest>>
otrVars == <<tpc, tRequest, tRet>>
clearVars == <<cpc>>
staleVars == <<discarded, tStale>>
histVars == <<directCalls, sbrCalls, sbrSlots, sbrOverlap, delivered, staleVars>>

peerVars == <<hashPeers, sOrigin>>
storeVars == <<headers, utxos, stxos, txns, proofs, chainHeight>>
commitVars == <<lock, kpc, kHeader, kTxns, fPositives, kRemoved, kStored,
                spawned, kRet, commits, knownPrevious, unmatched>>
locatorVars == <<lpc, ret, parent, step, lStart>>
powVars == <<wpc, bits, auxHash, powErr>>

\* the variables of the Blockchain, which no RequestQueue operation touches
chainVars == <<storeVars, commitVars, locatorVars, powVars>>

\* the variables of the RequestQueue, which no Blockchain operation touches
requestQueueVars == <<queueVars, handlerVars, sbrVars, pushVars, obrVars,
                      otrVars, clearVars, histVars, peerVars>>

vars == <<requestQueueVars, chainVars>>

\* ------------------------------------------------------------- Go maps
EmptyMap == [x \in {} |-> 0]

Put(m, k, v) == [x \in DOMAIN m \cup {k} |-> IF x = k THEN v ELSE m[x]]

Remove(m, k) == [x \in DOMAIN m \ {k} |-> m[x]]

\* ------------------------------------------ Request / BlockTxsRequest / pool
NoRequest == [peer |-> NoPeer, hash |-> "none", reqType |-> "none",
              state |-> "none", preClear |-> FALSE]

NoBlockTxsRequest == [block |-> "none", txRequestQueue |-> EmptyMap,
                      wanted |-> {}, preClear |-> FALSE]

\* &Request{peer, hash, reqType, handler: queue} followed by Start(): the
\* fetch is sent to r.peer (handler.OnSendRequest(peer, reqType, hash)), the
\* request is outstanding and its timer armed.  preClear is history: the
\* request was pending when Clear was last called.
NewRequest(p, h, t) ==
    [peer |-> p, hash |-> h, reqType |-> t, state |-> "Started",
     preClear |-> FALSE]

\* BlockTxsRequest.OnTxReceived(tx): (finished, err) and the group afterwards
BlockTxsRequestOnTxReceived(g, t) ==
    IF t \notin DOMAIN g.txRequestQueue
    THEN [err |-> TRUE, finished |-> FALSE, group |-> g]
    ELSE LET q == Remove(g.txRequestQueue, t)
         IN  [err |-> FALSE, finished |-> (DOMAIN q = {}),
              group |-> [g EXCEPT !.txRequestQueue = q]]

\* FinishedReqPool.Add(request)
FinishedReqPoolAdd(pool, unit) == Append(pool, unit)

\* ------------------------------------------------------------------ Init
\* NewRequestQueue(size, handler), lines 36-54: empty channels and maps, free
\* locks, the worker started and waiting on hashesQueue.
NewRequestQueue ==
    /\ size \in 1..MaxSize
    /\ peer = NoPeer
    /\ hashesQueue = <<>>
    /\ blocksQueue = 0
    /\ blockTxsQueue = 0
    /\ blockReqsLock = FALSE
    /\ blockTxsReqsLock = FALSE
    /\ blockRequests = EmptyMap
    /\ blockTxsRequests = EmptyMap
    /\ blockTxs = EmptyMap
    /\ finished = <<>>
    /\ finishedCalls = 0
    /\ lastPool = <<>>
    /\ spc = [c \in Callers |-> "idle"]
    /\ sHash = [c \in Callers |-> "none"]
    /\ sPeer = [c \in Callers |-> NoPeer]
    /\ ppc = "idle"
    /\ pHashes = <<>>
    /\ pushed = 0
    /\ bpc = "idle"
    /\ bBlock = "none"
    /\ bTxIds = {}
    /\ bRequest = NoRequest
    /\ tpc = "idle"
    /\ tRequest = NoBlockTxsRequest
    /\ tRet = "nil"
    /\ cpc = "idle"
    /\ directCalls = 0
    /\ sbrCalls = [h \in Hash |-> 0]
    /\ sbrSlots = [h \in Hash |-> 0]
    /\ sbrOverlap = [h \in Hash |-> FALSE]
    /\ delivered = [h \in Hash |-> {}]
    /\ discarded = {}
    /\ tStale = FALSE
    /\ hashPeers = <<>>
    /\ sOrigin = [c \in Callers |-> NoPeer]

\* ------------------------------------------------------------- history
\* another caller is inside StartBlockRequest with the same hash
OtherMidCall(c, h) ==
    \E d \in Callers \ {c} : spc[d] # "idle" /\ sHash[d] = h

\* a StartBlockRequest(_, h) call by c begins
CallStarted(c, h) ==
    /\ sbrCalls' = [sbrCalls EXCEPT ![h] = IF @ < 2 THEN @ + 1 ELSE @]
    /\ sbrOverlap' = [sbrOverlap EXCEPT ![h] = @ \/ OtherMidCall(c, h)]

\* the block requests of the hashes in hs stop being pending; an overlap is
\* remembered for as long as one of the overlapping calls is still running
Resolved(hs) ==
    /\ sbrCalls' = [h \in Hash |-> IF h \in hs THEN 0 ELSE sbrCalls[h]]
    /\ sbrSlots' = [h \in Hash |-> IF h \in hs THEN 0 ELSE sbrSlots[h]]
    /\ sbrOverlap' = [h \in Hash |->
                         IF h \in hs
                         THEN sbrOverlap[h] /\
                              (\E c \in Callers : spc[c] # "idle" /\ sHash[c] = h)
                         ELSE sbrOverlap[h]]

\* ------------------------------------------------------------ PushHashes
\* the `hashes` arguments
Batches == UNION {[1..n -> Hash] : n \in 0..MaxPush}

\* line 64: queue.peer = peer, written without a lock
PushHashes_Call ==
    /\ ppc = "idle"
    /\ pushed < MaxPush
    /\ \E p \in Peers, hs \in Batches :
          /\ Len(hs) <= MaxPush - pushed
          /\ peer' = p
          /\ pHashes' = hs
          /\ pushed' = pushed + Len(hs)
          /\ ppc' = IF hs = <<>> THEN "idle" ELSE "send"
    /\ UNCHANGED <<size, hashesQueue, blocksQueue, blockTxsQueue,
                   blockReqsLock, blockTxsReqsLock, blockRequests,
                   blockTxsRequests, blockTxs, finished>>
    /\ UNCHANGED <<handlerVars, sbrVars, obrVars, otrVars, clearVars, histVars>>
    /\ UNCHANGED peerVars
    /\ UNCHANGED chainVars

\* lines 65-67: queue.hashesQueue <- hash, waiting while the channel is full.
\* One PushHashes call runs at a time and nothing else writes queue.peer, so
\* while the call sends, queue.peer is the call's own peer argument.
PushHashes_Send ==
    /\ ppc = "send"
    /\ Len(hashesQueue) < 2 * size
    /\ hashesQueue' = Append(hashesQueue, Head(pHashes))
    /\ pHashes' = Tail(pHashes)
    /\ ppc' = IF Tail(pHashes) = <<>> THEN "idle" ELSE "send"
    /\ UNCHANGED <<size, peer, blocksQueue, blockTxsQueue, blockReqsLock,
                   blockTxsReqsLock, blockRequests, blockTxsRequests, blockTxs,
                   finished, pushed>>
    /\ UNCHANGED <<handlerVars, sbrVars, obrVars, otrVars, clearVars, histVars>>
    /\ hashPeers' = Append(hashPeers, peer)
    /\ UNCHANGED sOrigin
    /\ UNCHANGED chainVars

\* ------------------------------------------- start / StartBlockRequest
\* lines 56-60: the worker takes the next hash and calls
\* StartBlockRequest(queue.peer, hash); queue.peer is read at the call
start ==
    /\ spc["worker"] = "idle"
    /\ hashesQueue # <<>>
    /\ hashesQueue' = Tail(hashesQueue)
    /\ sHash' = [sHash EXCEPT !["worker"] = Head(hashesQueue)]
    /\ sPeer' = [sPeer EXCEPT !["worker"] = peer]
    /\ spc' = [spc EXCEPT !["worker"] = "check"]
    /\ CallStarted("worker", Head(hashesQueue))
    /\ UNCHANGED <<size, peer, blocksQueue, blockTxsQueue, blockReqsLock,
                   blockTxsReqsLock, blockRequests, blockTxsRequests, blockTxs,
                   finished>>
    /\ UNCHANGED <<handlerVars, pushVars, obrVars, otrVars, clearVars,
                   directCalls, sbrSlots, delivered, staleVars>>
    /\ hashPeers' = Tail(hashPeers)
    /\ sOrigin' = [sOrigin EXCEPT !["worker"] = Head(hashPeers)]
    /\ UNCHANGED chainVars

\* a call of the exported StartBlockRequest from another goroutine
StartBlockRequest_Call ==
    /\ spc["direct"] = "idle"
    /\ directCalls < MaxDirect
    /\ directCalls' = directCalls + 1
    /\ \E p \in Peers, h \in Hash :
          /\ sHash' = [sHash EXCEPT !["direct"] = h]
          /\ sPeer' = [sPeer EXCEPT !["direct"] = p]
          /\ sOrigin' = [sOrigin EXCEPT !["direct"] = p]
          /\ CallStarted("direct", h)
    /\ spc' = [spc EXCEPT !["direct"] = "check"]
    /\ UNCHANGED <<queueVars, handlerVars, pushVars, obrVars, otrVars,
                   clearVars, sbrSlots, delivered, staleVars>>
    /\ UNCHANGED hashPeers
    /\ UNCHANGED chainVars

\* the StartBlockRequest call of c returns
Return(c) ==
    /\ spc' = [spc EXCEPT ![c] = "idle"]
    /\ sHash' = [sHash EXCEPT ![c] = "none"]
    /\ sPeer' = [sPeer EXCEPT ![c] = NoPeer]
    /\ sOrigin' = [sOrigin EXCEPT ![c] = NoPeer]

\* (mutant) StartBlockRequest without the lookup of lines 72-75
StartBlockRequest_Check_NoLookup(c) ==
    /\ spc[c] = "check"
    /\ ~blockReqsLock
    /\ spc' = [spc EXCEPT ![c] = "send"]
    /\ UNCHANGED <<sHash, sPeer>>
    /\ UNCHANGED <<queueVars, handlerVars, pushVars, obrVars, otrVars,
                   clearVars, histVars>>
    /\ UNCHANGED peerVars
    /\ UNCHANGED chainVars

\* lines 71-76: under blockReqsLock, return if the hash is already requested;
\* the lock is released before the slot is taken
StartBlockRequest_Check(c) ==
    /\ spc[c] = "check"
    /\ ~blockReqsLock
    /\ IF sHash[c] \in DOMAIN blockRequests
       THEN Return(c)
       ELSE /\ spc' = [spc EXCEPT ![c] = "send"]
            /\ UNCHANGED <<sHash, sPeer, sOrigin>>
    /\ UNCHANGED <<queueVars, handlerVars, pushVars, obrVars, otrVars,
                   clearVars, histVars>>
    /\ UNCHANGED hashPeers
    /\ UNCHANGED chainVars

\* line 79: queue.blocksQueue <- hash, waiting while the channel is full
StartBlockRequest_Send(c) ==
    /\ spc[c] = "send"
    /\ blocksQueue < size
    /\ blocksQueue' = blocksQueue + 1
    /\ spc' = [spc EXCEPT ![c] = "register"]
    /\ sbrSlots' = [sbrSlots EXCEPT ![sHash[c]] = @ + 1]
    /\ UNCHANGED <<size, peer, hashesQueue, blockTxsQueue, blockReqsLock,
                   blockTxsReqsLock, blockRequests, blockTxsRequests, blockTxs,
                   finished, sHash, sPeer>>
    /\ UNCHANGED <<handlerVars, pushVars, obrVars, otrVars, clearVars,
                   directCalls, sbrCalls, sbrOverlap, delivered, staleVars>>
    /\ UNCHANGED peerVars
    /\ UNCHANGED chainVars

\* lines 81-95: under blockReqsLock, create the block request, put it in
\* blockRequests (replacing any entry of the hash) and start it
StartBlockRequest_Register(c) ==
    /\ spc[c] = "register"
    /\ ~blockReqsLock
    /\ LET blockRequest == NewRequest(sPeer[c], sHash[c], BLOCK)
       IN  blockRequests' = Put(blockRequests, sHash[c], blockRequest)
    /\ Return(c)
    /\ UNCHANGED <<size, peer, hashesQueue, blocksQueue, blockTxsQueue,
                   blockReqsLock, blockTxsReqsLock, blockTxsRequests, blockTxs,
                   finished>>
    /\ UNCHANGED <<handlerVars, pushVars, obrVars, otrVars, clearVars,
                   histVars>>
    /\ UNCHANGED hashPeers
    /\ UNCHANGED chainVars

\* ------------------------------------------------------ OnRequestFinished
\* (mutant) OnRequestFinished without the handler call of line 216
OnRequestFinished_NoNotify(unit) ==
    /\ finished' = FinishedReqPoolAdd(finished, unit)
    /\ UNCHANGED <<finishedCalls, lastPool>>

\* lines 211-217: add the unit to the finished pool, then hand the pool
\* itself to the handler
OnRequestFinished(unit) ==
    /\ finished' = FinishedReqPoolAdd(finished, unit)
    /\ finishedCalls' = finishedCalls + 1
    /\ lastPool' = FinishedReqPoolAdd(finished, unit)

\* ------------------------------------ OnBlockReceived / StartBlockTxsRequest
\* OnBlockReceived returns: the deferred blockReqsLock.Unlock() runs
OnBlockReceived_Return ==
    /\ blockReqsLock' = FALSE
    /\ bpc' = "idle"
    /\ bBlock' = "none"
    /\ bTxIds' = {}
    /\ bRequest' = NoRequest

\* lines 148-162: lock blockReqsLock for the rest of the call; an unknown
\* block returns nil; a pending one is finished and deleted from blockRequests
OnBlockReceived_Lookup(b, txIds) ==
    /\ bpc = "idle"
    /\ ~blockReqsLock
    /\ IF b \notin DOMAIN blockRequests
       THEN UNCHANGED <<blockReqsLock, blockRequests, obrVars, sbrCalls,
                        sbrSlots, sbrOverlap>>
       ELSE /\ blockReqsLock' = TRUE
            /\ bRequest' = blockRequests[b]
            /\ blockRequests' = Remove(blockRequests, b)
            /\ bBlock' = b
            /\ bTxIds' = txIds
            /\ bpc' = "release"
            /\ Resolved({b})
    /\ UNCHANGED <<size, peer, hashesQueue, blocksQueue, blockTxsQueue,
                   blockTxsReqsLock, blockTxsRequests, blockTxs, finished>>
    /\ UNCHANGED <<handlerVars, sbrVars, pushVars, otrVars, clearVars,
                   directCalls, delivered, staleVars>>
    /\ UNCHANGED peerVars
    /\ UNCHANGED chainVars

\* lines 163-173: <-queue.blocksQueue, waiting while the channel is empty;
\* then a block without matched transactions is finished at once, another one
\* goes on to StartBlockTxsRequest(request.peer, block, txIds)
OnBlockReceived_Release ==
    /\ bpc = "release"
    /\ blocksQueue > 0
    /\ blocksQueue' = blocksQueue - 1
    /\ IF bTxIds = {}
       THEN /\ OnRequestFinished(bBlock)
            /\ OnBlockReceived_Return
       ELSE /\ bpc' = "txcheck"
            /\ UNCHANGED <<finished, finishedCalls, lastPool, blockReqsLock,
                           bBlock, bTxIds, bRequest>>
    /\ UNCHANGED <<size, peer, hashesQueue, blockTxsQueue, blockTxsReqsLock,
                   blockRequests, blockTxsRequests, blockTxs>>
    /\ UNCHANGED <<sbrVars, pushVars, otrVars, clearVars, histVars>>
    /\ UNCHANGED peerVars
    /\ UNCHANGED chainVars

\* lines 101-106: lock blockTxsReqsLock; when the block already has a group
\* the function returns at line 104 with the lock still held; otherwise the
\* lock is released before the slot is taken
StartBlockTxsRequest_Check ==
    /\ bpc = "txcheck"
    /\ ~blockTxsReqsLock
    /\ IF bBlock \in DOMAIN blockTxsRequests
       THEN /\ blockTxsReqsLock' = TRUE
            /\ OnBlockReceived_Return
       ELSE /\ bpc' = "txsend"
            /\ UNCHANGED <<blockTxsReqsLock, blockReqsLock, bBlock, bTxIds,
                           bRequest>>
    /\ UNCHANGED <<size, peer, hashesQueue, blocksQueue, blockTxsQueue,
                   blockRequests, blockTxsRequests, blockTxs, finished>>
    /\ UNCHANGED <<handlerVars, sbrVars, pushVars, otrVars, clearVars,
                   histVars>>
    /\ UNCHANGED peerVars
    /\ UNCHANGED chainVars

\* line 108: queue.blockTxsQueue <- blockHash, waiting while the channel is full
StartBlockTxsRequest_Send ==
    /\ bpc = "txsend"
    /\ blockTxsQueue < size
    /\ blockTxsQueue' = blockTxsQueue + 1
    /\ bpc' = "txregister"
    /\ UNCHANGED <<size, peer, hashesQueue, blocksQueue, blockReqsLock,
                   blockTxsReqsLock, blockRequests, blockTxsRequests, blockTxs,
                   finished, bBlock, bTxIds, bRequest>>
    /\ UNCHANGED <<handlerVars, sbrVars, pushVars, otrVars, clearVars,
                   histVars>>
    /\ UNCHANGED peerVars
    /\ UNCHANGED chainVars

\* lines 110-132: under blockTxsReqsLock, map every txId to the block, start
\* a transaction request for it and register the group; then OnBlockReceived
\* returns (line 175)
StartBlockTxsRequest_Register ==
    /\ bpc = "txregister"
    /\ ~blockTxsReqsLock
    /\ LET txRequestQueue ==
               [t \in bTxIds |-> NewRequest(bRequest.peer, t, TRANSACTION)]
           blockTxsRequest ==
               [block |-> bBlock, txRequestQueue |-> txRequestQueue,
                wanted |-> bTxIds, preClear |-> bRequest.preClear]
       IN  /\ blockTxs' = [t \in DOMAIN blockTxs \cup bTxIds |->
                              IF t \in bTxIds THEN bBlock ELSE blockTxs[t]]
           /\ blockTxsRequests' = Put(blockTxsRequests, bBlock, blockTxsRequest)
    /\ delivered' = [delivered EXCEPT ![bBlock] = {}]
    /\ discarded' = discarded \ bTxIds
    /\ OnBlockReceived_Return
    /\ UNCHANGED <<size, peer, hashesQueue, blocksQueue, blockTxsQueue,
                   blockTxsReqsLock, blockRequests, finished>>
    /\ UNCHANGED <<handlerVars, sbrVars, pushVars, otrVars, clearVars,
                   directCalls, sbrCalls, sbrSlots, sbrOverlap, tStale>>
    /\ UNCHANGED peerVars
    /\ UNCHANGED chainVars

\* ------------------------------------------------------------ OnTxReceived
\* the pending groups that asked for transaction t
Wanting(t) == {b \in DOMAIN blockTxsRequests : t \in blockTxsRequests[b].wanted}

\* lines 179-204: lock blockTxsReqsLock for the rest of the call; an unknown
\* txId returns nil; the id is deleted from blockTxs; a missing group or a
\* group that did not ask for it returns an error; a group that is now
\* empty is deleted from blockTxsRequests
OnTxReceived_Lookup(t) ==
    /\ tpc = "idle"
    /\ ~blockTxsReqsLock
    /\ delivered' = [b \in Hash |->
                        IF b \in Wanting(t) THEN delivered[b] \cup {t}
                        ELSE delivered[b]]
    /\ tStale' = (t \in discarded)
    /\ discarded' = discarded \ {t}
    /\ IF t \notin DOMAIN blockTxs
       THEN /\ tRet' = "nil"
            /\ UNCHANGED <<blockTxs, blockTxsRequests, blockTxsReqsLock, tpc,
                           tRequest>>
       ELSE LET blockHash == blockTxs[t]
            IN  /\ blockTxs' = Remove(blockTxs, t)
                /\ IF blockHash \notin DOMAIN blockTxsRequests
                   THEN /\ tRet' = "error"
                        /\ UNCHANGED <<blockTxsRequests, blockTxsReqsLock,
                                       tpc, tRequest>>
                   ELSE LET r == BlockTxsRequestOnTxReceived(
                                     blockTxsRequests[blockHash], t)
                        IN  IF r.err
                            THEN /\ tRet' = "error"
                                 /\ UNCHANGED <<blockTxsRequests,
                                                blockTxsReqsLock, tpc,
                                                tRequest>>
                            ELSE IF r.finished
                            THEN /\ blockTxsRequests' =
                                        Remove(blockTxsRequests, blockHash)
                                 /\ blockTxsReqsLock' = TRUE
                                 /\ tRequest' = r.group
                                 /\ tpc' = "release"
                                 /\ UNCHANGED tRet
                            ELSE /\ blockTxsRequests' =
                                        Put(blockTxsRequests, blockHash,
                                            r.group)
                                 /\ tRet' = "nil"
                                 /\ UNCHANGED <<blockTxsReqsLock, tpc,
                                                tRequest>>
    /\ UNCHANGED <<size, peer, hashesQueue, blocksQueue, blockTxsQueue,
                   blockReqsLock, blockRequests, finished>>
    /\ UNCHANGED <<handlerVars, sbrVars, pushVars, obrVars, clearVars,
                   directCalls, sbrCalls, sbrSlots, sbrOverlap>>
    /\ UNCHANGED peerVars
    /\ UNCHANGED chainVars

\* lines 205-208: <-queue.blockTxsQueue, waiting while the channel is empty;
\* then the finished group goes to OnRequestFinished and nil is returned
OnTxReceived_Release ==
    /\ tpc = "release"
    /\ blockTxsQueue > 0
    /\ blockTxsQueue' = blockTxsQueue - 1
    /\ OnRequestFinished(tRequest.block)
    /\ delivered' = [delivered EXCEPT ![tRequest.block] = {}]
    /\ blockTxsReqsLock' = FALSE
    /\ tpc' = "idle"
    /\ tRequest' = NoBlockTxsRequest
    /\ tRet' = "nil"
    /\ UNCHANGED <<size, peer, hashesQueue, blocksQueue, blockReqsLock,
                   blockRequests, blockTxsRequests, blockTxs>>
    /\ UNCHANGED <<sbrVars, pushVars, obrVars, clearVars, directCalls,
                   sbrCalls, sbrSlots, sbrOverlap, staleVars>>
    /\ UNCHANGED peerVars
    /\ UNCHANGED chainVars

\* ------------------------------------------------------------------ Clear
\* Clear is called.  History only: every pending request and group is marked
\* as having been in flight at the call.
Clear_Call ==
    /\ cpc = "idle"
    /\ cpc' = "hashesLen"
    /\ blockRequests' = [h \in DOMAIN blockRequests |->
                            [blockRequests[h] EXCEPT !.preClear = TRUE]]
    /\ blockTxsRequests' = [h \in DOMAIN blockTxsRequests |->
                               [blockTxsRequests[h] EXCEPT !.preClear = TRUE]]
    /\ UNCHANGED <<size, peer, hashesQueue, blocksQueue, blockTxsQueue,
                   blockReqsLock, blockTxsReqsLock, blockTxs, finished>>
    /\ UNCHANGED <<handlerVars, sbrVars, pushVars, obrVars, otrVars, histVars>>
    /\ UNCHANGED peerVars
    /\ UNCHANGED chainVars

\* what no step of Clear after the call changes
ClearFrame ==
    /\ UNCHANGED <<size, peer, blockReqsLock, blockTxsReqsLock, blockTxs, finished>>
    /\ UNCHANGED <<handlerVars, sbrVars, pushVars, obrVars, otrVars,
                   directCalls, tStale>>
    /\ UNCHANGED <<sOrigin, chainVars>>

\* line 221: for len(queue.hashesQueue) > 0
Clear_HashesLen ==
    /\ cpc = "hashesLen"
    /\ cpc' = IF Len(hashesQueue) > 0 THEN "hashesRecv" ELSE "blocksLen"
    /\ ClearFrame
    /\ UNCHANGED <<hashesQueue, blocksQueue, blockTxsQueue, blockRequests,
                   blockTxsRequests, sbrCalls, sbrSlots, sbrOverlap, delivered,
                   discarded>>
    /\ UNCHANGED hashPeers

\* line 222: <-queue.hashesQueue, waiting while the channel is empty
Clear_HashesRecv ==
    /\ cpc = "hashesRecv"
    /\ hashesQueue # <<>>
    /\ hashesQueue' = Tail(hashesQueue)
    /\ cpc' = "hashesLen"
    /\ ClearFrame
    /\ UNCHANGED <<blocksQueue, blockTxsQueue, blockRequests,
                   blockTxsRequests, sbrCalls, sbrSlots, sbrOverlap, delivered,
                   discarded>>
    /\ hashPeers' = Tail(hashPeers)

\* line 225: for len(queue.blocksQueue) > 0
Clear_BlocksLen ==
    /\ cpc = "blocksLen"
    /\ cpc' = IF blocksQueue > 0 THEN "blocksRecv" ELSE "blockTxsLen"
    /\ ClearFrame
    /\ UNCHANGED <<hashesQueue, blocksQueue, blockTxsQueue, blockRequests,
                   blockTxsRequests, sbrCalls, sbrSlots, sbrOverlap, delivered,
                   discarded>>
    /\ UNCHANGED hashPeers

\* line 226: <-queue.blocksQueue, waiting while the channel is empty
Clear_BlocksRecv ==
    /\ cpc = "blocksRecv"
    /\ blocksQueue > 0
    /\ blocksQueue' = blocksQueue - 1
    /\ cpc' = "blocksLen"
    /\ ClearFrame
    /\ UNCHANGED <<hashesQueue, blockTxsQueue, blockRequests,
                   blockTxsRequests, sbrCalls, sbrSlots, sbrOverlap, delivered,
                   discarded>>
    /\ UNCHANGED hashPeers

\* line 229: for len(queue.blockTxsQueue) > 0
Clear_BlockTxsLen ==
    /\ cpc = "blockTxsLen"
    /\ cpc' = IF blockTxsQueue > 0 THEN "blockTxsRecv" ELSE "lockBlockReqs"
    /\ ClearFrame
    /\ UNCHANGED <<hashesQueue, blocksQueue, blockTxsQueue, blockRequests,
                   blockTxsRequests, sbrCalls, sbrSlots, sbrOverlap, delivered,
                   discarded>>
    /\ UNCHANGED hashPeers

\* line 230: <-queue.blockTxsQueue, waiting while the channel is empty
Clear_BlockTxsRecv ==
    /\ cpc = "blockTxsRecv"
    /\ blockTxsQueue > 0
    /\ blockTxsQueue' = blockTxsQueue - 1
    /\ cpc' = "blockTxsLen"
    /\ ClearFrame
    /\ UNCHANGED <<hashesQueue, blocksQueue, blockRequests,
                   blockTxsRequests, sbrCalls, sbrSlots, sbrOverlap, delivered,
                   discarded>>
    /\ UNCHANGED hashPeers

\* (mutant) Clear without the loop of lines 235-238
Clear_BlockRequests_Keep ==
    /\ cpc = "lockBlockReqs"
    /\ ~blockReqsLock
    /\ cpc' = "lockBlockTxsReqs"
    /\ ClearFrame
    /\ UNCHANGED <<hashesQueue, blocksQueue, blockTxsQueue, blockRequests,
                   blockTxsRequests, sbrCalls, sbrSlots, sbrOverlap, delivered,
                   discarded>>
    /\ UNCHANGED hashPeers

\* lines 234-239: under blockReqsLock, finish and delete every block request
Clear_BlockRequests ==
    /\ cpc = "lockBlockReqs"
    /\ ~blockReqsLock
    /\ blockRequests' = EmptyMap
    /\ Resolved(DOMAIN blockRequests)
    /\ cpc' = "lockBlockTxsReqs"
    /\ ClearFrame
    /\ UNCHANGED <<hashesQueue, blocksQueue, blockTxsQueue, blockTxsRequests,
                   delivered, discarded>>
    /\ UNCHANGED hashPeers

\* lines 242-247: under blockTxsReqsLock, finish and delete every group; then
\* Clear returns.  blockTxs and the finished pool are not touched.
Clear_BlockTxsRequests ==
    /\ cpc = "lockBlockTxsReqs"
    /\ ~blockTxsReqsLock
    /\ blockTxsRequests' = EmptyMap
    /\ delivered' = [b \in Hash |->
                        IF b \in DOMAIN blockTxsRequests THEN {}
                        ELSE delivered[b]]
    /\ discarded' = discarded \cup
                       UNION {DOMAIN blockTxsRequests[b].txRequestQueue :
                                 b \in {x \in DOMAIN blockTxsRequests :
                                            blockTxsRequests[x].preClear}}
    /\ cpc' = "idle"
    /\ ClearFrame
    /\ UNCHANGED <<hashesQueue, blocksQueue, blockTxsQueue, blockRequests,
                   sbrCalls, sbrSlots, sbrOverlap>>
    /\ UNCHANGED hashPeers

\* --------------------------------------------------------------- timeouts
\* lines 143-145: handler.OnRequestError(errors.New("Request timeout with
\* hash: " + hash)) and nothing else: no field of the queue changes
OnRequestTimeout(hash) ==
    /\ UNCHANGED <<size, peer, hashesQueue, blocksQueue, blockTxsQueue,
                   blockReqsLock, blockTxsReqsLock, blockTxs, finished>>
    /\ UNCHANGED handlerVars

\* the timer of a started block request fires: the request is timed out and
\* reports its hash to the queue
BlockRequest_Timeout ==
    /\ \E h \in DOMAIN blockRequests :
          /\ blockRequests[h].state = "Started"
          /\ blockRequests' = [blockRequests EXCEPT ![h].state = "TimedOut"]
          /\ OnRequestTimeout(h)
    /\ UNCHANGED blockTxsRequests
    /\ UNCHANGED <<sbrVars, pushVars, obrVars, otrVars, clearVars, histVars>>
    /\ UNCHANGED peerVars
    /\ UNCHANGED chainVars

\* the timer of a started transaction request fires
TxRequest_Timeout ==
    /\ \E b \in DOMAIN blockTxsRequests :
          \E t \in DOMAIN blockTxsRequests[b].txRequestQueue :
             /\ blockTxsRequests[b].txRequestQueue[t].state = "Started"
             /\ blockTxsRequests' =
                   [blockTxsRequests EXCEPT
                       ![b].txRequestQueue[t].state = "TimedOut"]
             /\ OnRequestTimeout(t)
    /\ UNCHANGED blockRequests
    /\ UNCHANGED <<sbrVars, pushVars, obrVars, otrVars, clearVars, histVars>>
    /\ UNCHANGED peerVars
    /\ UNCHANGED chainVars

\* ============================================================ Blockchain
\* Blockchain commit calls (CommitBlock, CommitUnconfirmedTxn) over the run
MaxCommits == 3
\* transactions in one CommitBlock call
MaxTxns == 2

\* A uint32 is written as the signed integer with the same 32 bits, so
\* 0 - 1 is -1 (0xFFFFFFFF); heights stay far below 2^31.

\* the empty Uint256
ZeroHash == 0

\* the header the headers store holds when the wallet starts
Genesis == [hash |-> 1, previous |-> ZeroHash, height |-> 0]

\* the headers handed to CommitBlock: two competing blocks on the genesis
\* header, one block on each of them, a block whose previous header is on
\* no chain the wallet knows, and a competing genesis header
BlockHeaders ==
    { [hash |-> 2, previous |-> 1, height |-> 1],
      [hash |-> 3, previous |-> 1, height |-> 1],
      [hash |-> 4, previous |-> 2, height |-> 2],
      [hash |-> 5, previous |-> 3, height |-> 2],
      [hash |-> 6, previous |-> 9, height |-> 1],
      [hash |-> 7, previous |-> ZeroHash, height |-> 0] }

NoHeader == [hash |-> ZeroHash, previous |-> ZeroHash, height |-> 0]

\* the program hashes the wallet watches (Addrs().GetAddrFilter())
Watched == {"w"}

\* tx.NewOutPoint(txId, index)
OutPoint(txId, index) == [txId |-> txId, index |-> index]

\* the transactions handed to the commit calls: a coinbase paying the wallet,
\* a spend of its output paying someone else, a transaction that has nothing
\* to do with the wallet, and a second spend of the same output that pays
\* the wallet with its output 1
Transactions ==
    { [txId |-> 1, coinBase |-> TRUE, outputs |-> <<"w">>, inputs |-> <<>>],
      [txId |-> 2, coinBase |-> FALSE, outputs |-> <<"x">>,
       inputs |-> <<OutPoint(1, 0)>>],
      [txId |-> 3, coinBase |-> FALSE, outputs |-> <<"x">>,
       inputs |-> <<OutPoint(8, 0)>>],
      [txId |-> 4, coinBase |-> FALSE, outputs |-> <<"x", "w">>,
       inputs |-> <<OutPoint(1, 0)>>] }

\* the `txns` arguments of CommitBlock
TxnLists == UNION {[1..n -> Transactions] : n \in 0..MaxTxns}

\* ------------------------------------------------------- the headers store
\* Headers.GetTip(): the last header, an error when the store is empty
HeadersEmpty(hs) == hs = <<>>

GetTip(hs) == hs[Len(hs)]

\* Headers.Add(header): the header becomes the tip
HeadersAdd(hs, header) == Append(hs, header)

\* Headers.Rollback(): the tip is removed and returned
HeadersRollback(hs) == SubSeq(hs, 1, Len(hs) - 1)

\* Headers.GetPrevious(header): the stored header whose hash is
\* header.Previous; NoHeader stands for the error
GetPrevious(hs, header) ==
    IF \E i \in 1..Len(hs) : hs[i].hash = header.previous
    THEN hs[CHOOSE i \in 1..Len(hs) : hs[i].hash = header.previous]
    ELSE NoHeader

\* ----------------------------------------------------------- the datastore
\* UTXOs().Put(programHash, utxo): the row of the outpoint is written
UTXOsPut(table, utxo) == Put(table, utxo.op, utxo)

\* STXOs().FromUTXO(outpoint, txId, height) fails when the UTXO table has
\* no row for the outpoint; otherwise the row moves to the STXO table
FromUTXOFails(u, outpoint) == outpoint \notin DOMAIN u

FromUTXO_UTXOs(u, outpoint) == Remove(u, outpoint)

FromUTXO_STXOs(u, st, outpoint, txId, height) ==
    Put(st, outpoint, [op |-> outpoint, atHeight |-> u[outpoint].atHeight,
                       lockTime |-> u[outpoint].lockTime,
                       spendTxId |-> txId, spendHeight |-> height])

\* TXNs().Put(txn)
TXNsPut(table, txn) == Put(table, txn.txId, txn)

\* DataStore.Rollback(height): the UTXOs created at the height are deleted,
\* the STXOs spent at the height go back to the UTXO table, the Txn records
\* of the height are deleted
RollbackUTXOs(u, st, height) ==
    LET kept == {o \in DOMAIN u : u[o].atHeight # height}
        back == {o \in DOMAIN st : st[o].spendHeight = height /\
                                   st[o].atHeight # height}
    IN  [o \in kept \cup back |->
            IF o \in back
            THEN [op |-> o, atHeight |-> st[o].atHeight,
                  lockTime |-> st[o].lockTime]
            ELSE u[o]]

RollbackSTXOs(st, height) ==
    [o \in {x \in DOMAIN st : st[x].spendHeight # height} |-> st[o]]

RollbackTXNs(table, height) ==
    [t \in {x \in DOMAIN table : table[x].height # height} |-> table[t]]

\* ------------------------------------------------------------ NewBlockchain
NoCallbacks == [txCommit |-> 0, blockCommit |-> 0, rollback |-> 0]

NoReturn == [op |-> "none", err |-> FALSE, falsePositive |-> FALSE,
             falsePositives |-> 0]

\* lines 41-58: a free lock, the headers store and the datastore as opened,
\* over a headers store that holds the headers `stored` (bottom to tip) and a
\* datastore that holds no wallet transaction
NewBlockchainOver(stored) ==
    /\ lock = FALSE
    /\ headers = stored
    /\ utxos = EmptyMap
    /\ stxos = EmptyMap
    /\ txns = EmptyMap
    /\ proofs = {}
    /\ chainHeight = IF stored = <<>> THEN 0 ELSE stored[Len(stored)].height
    /\ kpc = "idle"
    /\ kHeader = NoHeader
    /\ kTxns = <<>>
    /\ fPositives = 0
    /\ kRemoved = 0
    /\ kStored = 0
    /\ spawned = NoCallbacks
    /\ kRet = NoReturn
    /\ commits = 0
    /\ knownPrevious = TRUE
    /\ unmatched = 0

\* the wallet's first start: the headers store holds the genesis header
NewBlockchain == NewBlockchainOver(<<Genesis>>)

\* no GetBlockLocatorHashes call is running
LocatorIdle ==
    /\ lpc = "idle"
    /\ ret = <<>>
    /\ parent = NoHeader
    /\ step = 0
    /\ lStart = 0

\* ---------------------------------------------------------------- commitTxn
\* lines 330-337: ToUTXO(txId, height, index, value, lockTime), without the value
ToUTXO(txId, height, index, lockTime) ==
    [op |-> OutPoint(txId, index), atHeight |-> height, lockTime |-> lockTime]

\* lines 320-328: ToTxn(tx, height), without the serialized payload
ToTxn(txn, height) == [txId |-> txn.txId, height |-> height]

\* lines 251-265: every output that pays a watched program hash is put in
\* the UTXO table and counted as a hit; a coinbase output is locked until
\* height + 100.  acc is [utxos, hits]; i is the output's index plus one.
RECURSIVE SaveUTXOs(_, _, _, _)
SaveUTXOs(txn, height, i, acc) ==
    IF i > Len(txn.outputs)
    THEN acc
    ELSE IF txn.outputs[i] \in Watched
         THEN LET lockTime == IF txn.coinBase THEN height + 100
                              ELSE 0
                  utxo == ToUTXO(txn.txId, height, i - 1, lockTime)
              IN  SaveUTXOs(txn, height, i + 1,
                            [utxos |-> UTXOsPut(acc.utxos, utxo),
                             hits |-> acc.hits + 1])
         ELSE SaveUTXOs(txn, height, i + 1, acc)

\* lines 268-276: every input whose outpoint FromUTXO moves to the STXO
\* table is counted as a hit.  acc is [utxos, stxos, hits].
RECURSIVE SpendInputs(_, _, _, _)
SpendInputs(txn, height, i, acc) ==
    IF i > Len(txn.inputs)
    THEN acc
    ELSE LET outpoint == txn.inputs[i]
         IN  IF FromUTXOFails(acc.utxos, outpoint)
             THEN SpendInputs(txn, height, i + 1, acc)
             ELSE SpendInputs(txn, height, i + 1,
                     [utxos |-> FromUTXO_UTXOs(acc.utxos, outpoint),
                      stxos |-> FromUTXO_STXOs(acc.utxos, acc.stxos, outpoint,
                                               txn.txId, height),
                      hits |-> acc.hits + 1])

\* commitTxn without lines 279-281, the return for a transaction with no hits
commitTxn_NoFilter(height, txn) ==
    LET saved == SaveUTXOs(txn, height, 1, [utxos |-> utxos, hits |-> 0])
        spent == SpendInputs(txn, height, 1,
                             [utxos |-> saved.utxos, stxos |-> stxos,
                              hits |-> saved.hits])
    IN  [utxos |-> spent.utxos, stxos |-> spent.stxos,
         txns |-> TXNsPut(txns, ToTxn(txn, height)),
         fPositive |-> FALSE, onTxCommit |-> 1]

\* lines 247-293: the tables after commitTxn(height, txn), whether the
\* transaction is a false positive, and the OnTxCommit calls started
commitTxn(height, txn) ==
    LET saved == SaveUTXOs(txn, height, 1, [utxos |-> utxos, hits |-> 0])
        spent == SpendInputs(txn, height, 1,
                             [utxos |-> saved.utxos, stxos |-> stxos,
                              hits |-> saved.hits])
    IN  IF spent.hits = 0
        THEN [utxos |-> spent.utxos, stxos |-> spent.stxos, txns |-> txns,
              fPositive |-> TRUE, onTxCommit |-> 0]
        ELSE [utxos |-> spent.utxos, stxos |-> spent.stxos,
              txns |-> TXNsPut(txns, ToTxn(txn, height)),
              fPositive |-> FALSE, onTxCommit |-> 1]

\* history: the transaction has no output paying a watched address and no
\* input whose outpoint is in the UTXO table
NoMatch(txn) ==
    /\ \A i \in DOMAIN txn.outputs : txn.outputs[i] \notin Watched
    /\ \A i \in DOMAIN txn.inputs : txn.inputs[i] \notin DOMAIN utxos

\* what no Blockchain operation changes
ChainFrame ==
    /\ UNCHANGED requestQueueVars
    /\ UNCHANGED <<locatorVars, powVars>>

\* lines 186-191: under the lock, commitTxn(0, txn)
CommitUnconfirmedTxn(txn) ==
    /\ kpc = "idle"
    /\ ~lock
    /\ commits < MaxCommits
    /\ commits' = commits + 1
    /\ LET r == commitTxn(0, txn)
       IN  /\ utxos' = r.utxos
           /\ stxos' = r.stxos
           /\ txns' = r.txns
           /\ spawned' = [NoCallbacks EXCEPT !.txCommit = r.onTxCommit]
           /\ kRet' = [op |-> "CommitUnconfirmedTxn", err |-> FALSE,
                       falsePositive |-> r.fPositive, falsePositives |-> 0]
    /\ UNCHANGED <<lock, headers, proofs, chainHeight, kpc, kHeader, kTxns,
                   fPositives, kRemoved, kStored, knownPrevious, unmatched>>
    /\ ChainFrame

\* ------------------------------------------------------------- CommitBlock
\* the CommitBlock call returns (0, err): lines 201, 209
CommitBlock_Error ==
    /\ kRet' = [op |-> "CommitBlock", err |-> TRUE, falsePositive |-> FALSE,
                falsePositives |-> 0]
    /\ kpc' = "idle"
    /\ lock' = FALSE
    /\ kHeader' = NoHeader
    /\ kTxns' = <<>>
    /\ fPositives' = 0

\* lines 194-211: take the lock, read the tip; a header below the tip's
\* height sends the call into rollbackTo(header.Previous)
CommitBlock_Call(header, txnList) ==
    /\ kpc = "idle"
    /\ ~lock
    /\ commits < MaxCommits
    /\ commits' = commits + 1
    /\ spawned' = NoCallbacks
    /\ kRemoved' = 0
    /\ kStored' = Len(headers)
    /\ unmatched' = 0
    /\ knownPrevious' = (knownPrevious /\ \E i \in 1..Len(headers) :
                                             headers[i].hash = header.previous)
    /\ IF HeadersEmpty(headers)
       THEN CommitBlock_Error
       ELSE /\ lock' = TRUE
            /\ kHeader' = header
            /\ kTxns' = txnList
            /\ fPositives' = 0
            /\ kpc' = IF header.height < GetTip(headers).height
                      THEN "rollbackTo" ELSE "commitTxn"
            /\ UNCHANGED kRet
    /\ UNCHANGED storeVars
    /\ ChainFrame

\* rollbackTo with Headers.GetTip in place of Headers.Rollback at line 298:
\* the tip header is read and left in the store
rollbackTo_NoPop ==
    /\ kpc = "rollbackTo"
    /\ IF HeadersEmpty(headers)
       THEN /\ CommitBlock_Error
            /\ UNCHANGED <<storeVars, kRemoved, spawned>>
       ELSE LET removed == GetTip(headers)
            IN  /\ utxos' = RollbackUTXOs(utxos, stxos, removed.height)
                /\ stxos' = RollbackSTXOs(stxos, removed.height)
                /\ txns' = RollbackTXNs(txns, removed.height)
                /\ spawned' = [spawned EXCEPT !.rollback = @ + 1]
                /\ kRemoved' = kRemoved + 1
                /\ IF removed.previous = kHeader.previous
                   THEN /\ chainHeight' = removed.height - 1
                        /\ kpc' = "commitTxn"
                   ELSE UNCHANGED <<chainHeight, kpc>>
                /\ UNCHANGED <<headers, proofs, lock, kHeader, kTxns,
                               fPositives, kRet>>
    /\ UNCHANGED <<kStored, commits, knownPrevious, unmatched>>
    /\ ChainFrame

\* lines 295-318, one turn of the loop: pop the tip header, roll the
\* datastore back at its height, start OnRollback, and stop once the
\* removed header's previous is the fork point
rollbackTo ==
    /\ kpc = "rollbackTo"
    /\ IF HeadersEmpty(headers)
       THEN /\ CommitBlock_Error
            /\ UNCHANGED <<storeVars, kRemoved, spawned>>
       ELSE LET removed == GetTip(headers)
            IN  /\ headers' = HeadersRollback(headers)
                /\ utxos' = RollbackUTXOs(utxos, stxos, removed.height)
                /\ stxos' = RollbackSTXOs(stxos, removed.height)
                /\ txns' = RollbackTXNs(txns, removed.height)
                /\ spawned' = [spawned EXCEPT !.rollback = @ + 1]
                /\ kRemoved' = kRemoved + 1
                /\ IF removed.previous = kHeader.previous
                   THEN /\ chainHeight' = removed.height - 1
                        /\ kpc' = "commitTxn"
                   ELSE UNCHANGED <<chainHeight, kpc>>
                /\ UNCHANGED <<proofs, lock, kHeader, kTxns, fPositives, kRet>>
    /\ UNCHANGED <<kStored, commits, knownPrevious, unmatched>>
    /\ ChainFrame

\* lines 215-223, one turn of the loop: commitTxn(header.Height, txn)
CommitBlock_Txn ==
    /\ kpc = "commitTxn"
    /\ kTxns # <<>>
    /\ LET r == commitTxn(kHeader.height, Head(kTxns))
       IN  /\ utxos' = r.utxos
           /\ stxos' = r.stxos
           /\ txns' = r.txns
           /\ spawned' = [spawned EXCEPT !.txCommit = @ + r.onTxCommit]
           /\ fPositives' = fPositives + (IF r.fPositive THEN 1 ELSE 0)
    /\ kTxns' = Tail(kTxns)
    /\ unmatched' = unmatched + (IF NoMatch(Head(kTxns)) THEN 1 ELSE 0)
    /\ UNCHANGED <<headers, proofs, chainHeight, lock, kpc, kHeader, kRemoved,
                   kStored, kRet, commits, knownPrevious>>
    /\ ChainFrame

\* CommitBlock_Save without line 238, the SaveChainHeight call
CommitBlock_Save_NoHeight ==
    /\ kpc = "commitTxn"
    /\ kTxns = <<>>
    /\ proofs' = proofs \cup {kHeader.hash}
    /\ headers' = HeadersAdd(headers, kHeader)
    /\ spawned' = [spawned EXCEPT !.blockCommit = @ + 1]
    /\ kRet' = [op |-> "CommitBlock", err |-> FALSE, falsePositive |-> FALSE,
                falsePositives |-> fPositives]
    /\ kpc' = "idle"
    /\ lock' = FALSE
    /\ kHeader' = NoHeader
    /\ fPositives' = 0
    /\ UNCHANGED <<utxos, stxos, txns, chainHeight, kTxns, kRemoved, kStored,
                   commits, knownPrevious, unmatched>>
    /\ ChainFrame

\* lines 225-243: save the proof, add the header, save the chain height,
\* start OnBlockCommit and return the false positives
CommitBlock_Save ==
    /\ kpc = "commitTxn"
    /\ kTxns = <<>>
    /\ proofs' = proofs \cup {kHeader.hash}
    /\ headers' = HeadersAdd(headers, kHeader)
    /\ chainHeight' = kHeader.height
    /\ spawned' = [spawned EXCEPT !.blockCommit = @ + 1]
    /\ kRet' = [op |-> "CommitBlock", err |-> FALSE, falsePositive |-> FALSE,
                falsePositives |-> fPositives]
    /\ kpc' = "idle"
    /\ lock' = FALSE
    /\ kHeader' = NoHeader
    /\ fPositives' = 0
    /\ UNCHANGED <<utxos, stxos, txns, kTxns, kRemoved, kStored, commits,
                   knownPrevious, unmatched>>
    /\ ChainFrame

\* lines 80-91: the tip header's height, 0 when the store has no tip
Height == IF HeadersEmpty(headers) THEN 0 ELSE GetTip(headers).height

\* ---------------------------------------------------- GetBlockLocatorHashes
\* headers in the store when GetBlockLocatorHashes is called
MaxChain == 33

\* line 26
MaxBlockLocatorHashes == 200

\* a store of n headers, each on top of the one before, from the genesis header
LinearChain(n) ==
    [i \in 1..n |-> [hash |-> i, previous |-> i - 1, height |-> i - 1]]

\* lines 155-163: GetPrevious n times; the header reached, or the error of
\* the first GetPrevious that finds no header
RECURSIVE rollback(_, _)
rollback(header, n) ==
    IF n = 0
    THEN [parent |-> header, err |-> FALSE]
    ELSE LET previous == GetPrevious(headers, header)
         IN  IF previous = NoHeader
             THEN [parent |-> previous, err |-> TRUE]
             ELSE rollback(previous, n - 1)

\* lines 145-166: take the read lock, read the tip; no tip, empty locator
GetBlockLocatorHashes_Call ==
    /\ lpc = "idle"
    /\ ~lock
    /\ ret' = <<>>
    /\ IF HeadersEmpty(headers)
       THEN /\ lpc' = "done"
            /\ UNCHANGED <<parent, step, lStart>>
       ELSE /\ parent' = GetTip(headers)
            /\ step' = 1
            /\ lStart' = 0
            /\ lpc' = "loop"
    /\ UNCHANGED <<storeVars, commitVars, powVars>>
    /\ UNCHANGED requestQueueVars

\* GetBlockLocatorHashes_Loop without lines 168-171: the step never doubles
GetBlockLocatorHashes_Loop_NoDouble ==
    /\ lpc = "loop"
    /\ ret' = Append(ret, parent.hash)
    /\ UNCHANGED step
    /\ IF Len(ret') >= MaxBlockLocatorHashes
       THEN /\ lpc' = "done"
            /\ UNCHANGED <<parent, lStart>>
       ELSE LET walked == rollback(parent, step)
            IN  /\ parent' = walked.parent
                /\ IF walked.err
                   THEN lpc' = "done" /\ UNCHANGED lStart
                   ELSE lpc' = "loop" /\ lStart' = lStart + 1
    /\ UNCHANGED <<storeVars, commitVars, powVars>>
    /\ UNCHANGED requestQueueVars

\* lines 167-182, one turn of the loop
GetBlockLocatorHashes_Loop ==
    /\ lpc = "loop"
    /\ LET doubled == lStart >= 9
           nextStep == IF doubled THEN step * 2 ELSE step
           nextStart == IF doubled THEN 0 ELSE lStart
       IN  /\ step' = nextStep
           /\ ret' = Append(ret, parent.hash)
           /\ IF Len(ret') >= MaxBlockLocatorHashes
              THEN /\ lpc' = "done"
                   /\ lStart' = nextStart
                   /\ UNCHANGED parent
              ELSE LET walked == rollback(parent, nextStep)
                   IN  /\ parent' = walked.parent
                       /\ IF walked.err
                          THEN lpc' = "done" /\ lStart' = nextStart
                          ELSE lpc' = "loop" /\ lStart' = nextStart + 1
    /\ UNCHANGED <<storeVars, commitVars, powVars>>
    /\ UNCHANGED requestQueueVars

\* --------------------------------------------------------- CheckProofOfWork
\* A uint32 (header.Bits) is its 4 bytes, most significant first.  A Uint256
\* is its 32 bytes in array order.  A big.Int is a sign and a magnitude: the
\* base-256 digits, least significant first, with no zero digit on top; zero
\* is the empty magnitude with no sign.

\* the digits without the zero digits on top
RECURSIVE Trim(_)
Trim(digits) ==
    IF digits = <<>> \/ digits[Len(digits)] # 0
    THEN digits
    ELSE Trim(SubSeq(digits, 1, Len(digits) - 1))

\* big.NewInt and big.Int.Lsh by whole bytes on a non-negative value
BigFromDigits(digits) == [neg |-> FALSE, mag |-> Trim(digits)]

\* big.Int.Neg: zero stays zero
Neg(x) == [neg |-> (x.mag # <<>> /\ ~x.neg), mag |-> x.mag]

\* big.Int.Sign
Sign(x) == IF x.mag = <<>> THEN 0 ELSE IF x.neg THEN -1 ELSE 1

\* the comparison of two magnitudes of the same length, from digit i down
RECURSIVE CmpDigits(_, _, _)
CmpDigits(a, b, i) ==
    IF i = 0 THEN 0
    ELSE IF a[i] < b[i] THEN -1
    ELSE IF a[i] > b[i] THEN 1
    ELSE CmpDigits(a, b, i - 1)

CmpAbs(a, b) ==
    IF Len(a) < Len(b) THEN -1
    ELSE IF Len(a) > Len(b) THEN 1
    ELSE CmpDigits(a, b, Len(a))

\* big.Int.Cmp: -1, 0 or 1
Cmp(x, y) ==
    IF x.neg # y.neg
    THEN (IF x.neg THEN -1 ELSE 1)
    ELSE IF x.neg THEN 0 - CmpAbs(x.mag, y.mag) ELSE CmpAbs(x.mag, y.mag)

\* line 29: 2^255 - 1
PowLimit ==
    [neg |-> FALSE, mag |-> [i \in 1..32 |-> IF i = 32 THEN 127 ELSE 255]]

\* big.Int.SetBytes: the bytes read as a big-endian unsigned number
SetBytes(buf) == BigFromDigits([i \in 1..Len(buf) |-> buf[Len(buf) + 1 - i]])

\* HashToBig without the reversal at lines 375-379
HashToBig_NoReverse(hash) == SetBytes(hash)

\* lines 372-382: reverse the bytes of the hash, then SetBytes
HashToBig(hash) ==
    LET blen == Len(hash)
        buf == [i \in 1..blen |-> hash[blen + 1 - i]]
    IN  SetBytes(buf)

\* lines 384-410
CompactToBig(compact) ==
    LET mantissa == <<compact[4], compact[3], compact[2] % 128>>
        isNegative == compact[2] >= 128
        exponent == compact[1]
        bn == IF exponent <= 3
              THEN BigFromDigits(SubSeq(mantissa, 3 - exponent + 1, 3))
              ELSE BigFromDigits([i \in 1..(exponent - 3) |-> 0] \o mantissa)
    IN  IF isNegative THEN Neg(bn) ELSE bn

\* lines 347-370: the error returned for these Bits and this hash of the
\* auxiliary proof-of-work's parent block header
CheckProofOfWorkError(compact, hash) ==
    LET target == CompactToBig(compact)
    IN  IF Sign(target) <= 0 THEN "target difficulty is too low"
        ELSE IF Cmp(target, PowLimit) > 0
             THEN "target difficulty is higher than max of limit"
        ELSE IF Cmp(HashToBig(hash), target) > 0
             THEN "target difficulty is higher than expected difficulty"
        ELSE "nil"

\* lines 347-370
CheckProofOfWork ==
    /\ wpc = "idle"
    /\ wpc' = "done"
    /\ powErr' = CheckProofOfWorkError(bits, auxHash)
    /\ UNCHANGED <<bits, auxHash>>
    /\ UNCHANGED <<storeVars, commitVars, locatorVars>>
    /\ UNCHANGED requestQueueVars

\* header.Bits values: exponents at and around the shift boundary (3) and
\* the limit (32), mantissas with and without the sign bit
BitsInputs ==
    { <<exponent, b2, b1, b0>> :
          exponent \in {0, 1, 2, 3, 4, 32, 33, 34},
          b2 \in {0, 1, 127, 128, 129, 255}, b1 \in {0, 255}, b0 \in {0, 1} }

\* parent-block hashes: the first byte and the last three bytes vary
HashInputs ==
    { [i \in 1..32 |-> IF i = 1 THEN first
                       ELSE IF i = 30 THEN h30
                       ELSE IF i = 31 THEN h31
                       ELSE IF i = 32 THEN last
                       ELSE 0] :
          first \in {0, 1}, h30 \in {0, 1}, h31 \in {0, 255},
          last \in {0, 1, 127, 128} }

\* -------------------------------------------------------------------- Init
\* a header's Bits with no bytes set, and the all-zero Uint256 as 32 bytes
NoBits == <<0, 0, 0, 0>>
NoAuxHash == [i \in 1..32 |-> 0]

\* no CheckProofOfWork call has been made
PowIdle ==
    /\ wpc = "idle"
    /\ bits = NoBits
    /\ auxHash = NoAuxHash
    /\ powErr = "nil"

\* the wallet after NewRequestQueue and NewBlockchain
Init ==
    /\ NewRequestQueue
    /\ NewBlockchain
    /\ LocatorIdle
    /\ PowIdle

\* ------------------------------------------------------------------- Next
Next ==
    \/ PushHashes_Call
    \/ PushHashes_Send
    \/ start
    \/ StartBlockRequest_Check("worker")
    \/ StartBlockRequest_Send("worker")
    \/ StartBlockRequest_Register("worker")
    \/ \E b \in Hash, txIds \in SUBSET Tx : OnBlockReceived_Lookup(b, txIds)
    \/ OnBlockReceived_Release
    \/ StartBlockTxsRequest_Check
    \/ StartBlockTxsRequest_Send
    \/ StartBlockTxsRequest_Register
    \/ \E t \in Tx : OnTxReceived_Lookup(t)
    \/ OnTxReceived_Release
    \/ Clear_Call
    \/ Clear_HashesLen
    \/ Clear_HashesRecv
    \/ Clear_BlocksLen
    \/ Clear_BlocksRecv
    \/ Clear_BlockTxsLen
    \/ Clear_BlockTxsRecv
    \/ Clear_BlockRequests
    \/ Clear_BlockTxsRequests
    \/ BlockRequest_Timeout
    \/ TxRequest_Timeout

\* the program: one worker is the only caller of StartBlockRequest
Spec == Init /\ [][Next]_vars

\* the program when one goroutine, the sync driver, makes both the PushHashes
\* and the Clear calls: neither starts while the other is running.  Every
\* behaviour of SpecDriver is a behaviour of Spec.
NextDriver ==
    \/ cpc = "idle" /\ PushHashes_Call
    \/ PushHashes_Send
    \/ start
    \/ StartBlockRequest_Check("worker")
    \/ StartBlockRequest_Send("worker")
    \/ StartBlockRequest_Register("worker")
    \/ \E b \in Hash, txIds \in SUBSET Tx : OnBlockReceived_Lookup(b, txIds)
    \/ OnBlockReceived_Release
    \/ StartBlockTxsRequest_Check
    \/ StartBlockTxsRequest_Send
    \/ StartBlockTxsRequest_Register
    \/ \E t \in Tx : OnTxReceived_Lookup(t)
    \/ OnTxReceived_Release
    \/ ppc = "idle" /\ Clear_Call
    \/ Clear_HashesLen
    \/ Clear_HashesRecv
    \/ Clear_BlocksLen
    \/ Clear_BlocksRecv
    \/ Clear_BlockTxsLen
    \/ Clear_BlockTxsRecv
    \/ Clear_BlockRequests
    \/ Clear_BlockTxsRequests
    \/ BlockRequest_Timeout
    \/ TxRequest_Timeout

SpecDriver == Init /\ [][NextDriver]_vars

\* StartBlockRequest with two callers: the worker and one more goroutine that
\* calls the exported method, with the block receive path that resolves the
\* requests.  Clear, OnTxReceived and the timers are not scheduled.
NextConc ==
    \/ PushHashes_Call
    \/ PushHashes_Send
    \/ start
    \/ StartBlockRequest_Call
    \/ \E c \in Callers : StartBlockRequest_Check(c)
    \/ \E c \in Callers : StartBlockRequest_Send(c)
    \/ \E c \in Callers : StartBlockRequest_Register(c)
    \/ \E b \in Hash, txIds \in SUBSET Tx : OnBlockReceived_Lookup(b, txIds)
    \/ OnBlockReceived_Release
    \/ StartBlockTxsRequest_Check
    \/ StartBlockTxsRequest_Send
    \/ StartBlockTxsRequest_Register

SpecConc == Init /\ [][NextConc]_vars

\* the chain state manager under one caller at a time (every operation holds
\* the lock from entry to return); the request queue is left as constructed
NextChain ==
    \/ \E txn \in Transactions : CommitUnconfirmedTxn(txn)
    \/ \E header \in BlockHeaders, txnList \in TxnLists :
           CommitBlock_Call(header, txnList)
    \/ rollbackTo
    \/ CommitBlock_Txn
    \/ CommitBlock_Save

InitChain == Init /\ size = 1

SpecChain == InitChain /\ [][NextChain]_vars

\* GetBlockLocatorHashes called once, over a store of 0 to MaxChain headers
NextLocator ==
    \/ GetBlockLocatorHashes_Call
    \/ GetBlockLocatorHashes_Loop

InitLocator ==
    /\ NewRequestQueue
    /\ size = 1
    /\ \E n \in 0..MaxChain : NewBlockchainOver(LinearChain(n))
    /\ LocatorIdle
    /\ PowIdle

SpecLocator == InitLocator /\ [][NextLocator]_vars

\* CheckProofOfWork called once, on a header with these Bits and this
\* parent-block hash
NextPow == CheckProofOfWork

InitPow ==
    /\ NewRequestQueue
    /\ size = 1
    /\ NewBlockchain
    /\ LocatorIdle
    /\ wpc = "idle"
    /\ bits \in BitsInputs
    /\ auxHash \in HashInputs
    /\ powErr = "nil"

SpecPow == InitPow /\ [][NextPow]_vars

\* ----------------------------------------------------------------- claims
\* lines 135-137
IsRunning == Len(hashesQueue) > 0 \/ blocksQueue > 0 \/ blockTxsQueue > 0

IsPrefix(a, b) == Len(a) <= Len(b) /\ SubSeq(b, 1, Len(a)) = a

\* C1: in every reachable state at most `size` block requests and at most
\* `size` block-transaction groups are pending, and the intake queue holds at
\* most 2*size hashes.
C1_QueueBounds ==
    /\ Cardinality(DOMAIN blockRequests) <= size
    /\ Cardinality(DOMAIN blockTxsRequests) <= size
    /\ Len(hashesQueue) <= 2 * size

\* C2: OnBlockReceived and OnTxReceived never wait on a channel: neither is
\* ever at a receive from an empty slot queue or at a send to a full one.
C2_ReceiversNeverWait ==
    /\ ~(bpc = "release" /\ blocksQueue = 0)
    /\ ~(bpc = "txsend" /\ blockTxsQueue >= size)
    /\ ~(tpc = "release" /\ blockTxsQueue = 0)

\* C3: StartBlockTxsRequest for a block that already has a group returns
\* leaving blockTxsRequests, blockTxs and the group slot queue unchanged and
\* the block-transaction lock free.
C3_DuplicateGroupIsNoOp ==
    [][(bpc = "txcheck" /\ bBlock \in DOMAIN blockTxsRequests /\ bpc' = "idle")
          => /\ UNCHANGED <<blockTxsRequests, blockTxs, blockTxsQueue>>
             /\ ~blockTxsReqsLock']_vars

\* C4 (as stated): two StartBlockRequest calls with the same hash before its
\* block is received, one after the other or interleaved, take one block slot
\* and leave one pending request.
C4_OneRequestOneSlot ==
    \A h \in Hash :
        /\ sbrSlots[h] <= 1
        /\ h \in DOMAIN blockRequests => sbrSlots[h] = 1

\* C4 (amended): StartBlockRequest calls with the same hash that run one
\* after the other, none starting while another is inside the function, take
\* one block slot and leave one pending request.
C4_SequentialCallsOneSlot ==
    \A h \in Hash :
        ~sbrOverlap[h] =>
            /\ sbrSlots[h] <= 1
            /\ h \in DOMAIN blockRequests => sbrSlots[h] = 1

\* two calls with the same hash have run one after the other and returned
C4_Witness ==
    \E h \in Hash :
        /\ sbrCalls[h] = 2
        /\ ~sbrOverlap[h]
        /\ h \in DOMAIN blockRequests
        /\ sbrSlots[h] = 1
        /\ \A c \in Callers : spc[c] = "idle"

\* C5: a pending block received with no matched ids is handed to the
\* completion path in that call; one received with N > 0 ids is handed over
\* only after all N transactions were delivered through OnTxReceived, and
\* in the call that delivers the N-th, so no group stays pending once all
\* its transactions were delivered.
C5_CompletionCorrectness ==
    /\ [](\A b \in DOMAIN blockTxsRequests :
             ~(blockTxsRequests[b].wanted \subseteq delivered[b]))
    /\ [](tpc = "release" => tRequest.wanted \subseteq delivered[tRequest.block])
    /\ [][/\ (bpc = "release" /\ bpc' = "idle")
                => finished' = Append(finished, bBlock)
          /\ (bpc = "release" /\ bpc' = "txcheck") => finished' = finished
          /\ (tpc = "release" /\ tpc' = "idle")
                => finished' = Append(finished, tRequest.block)]_vars

\* C6: a block request whose timeout has fired is no longer in the pending
\* block-request map.
C6_TimedOutRequestLeaves ==
    \A h \in DOMAIN blockRequests : blockRequests[h].state # "TimedOut"

\* C7: when Clear returns, IsRunning() is false and both pending maps are
\* empty.
C7_ClearLeavesQueueIdle ==
    [][(cpc = "lockBlockTxsReqs" /\ cpc' = "idle")
          => /\ ~IsRunning'
             /\ DOMAIN blockRequests' = {}
             /\ DOMAIN blockTxsRequests' = {}]_vars

\* the unit a step adds to the finished pool was pending when Clear was called
CompletesStale ==
    /\ Len(finished') > Len(finished)
    /\ IF bpc = "release" /\ bpc' = "idle"
       THEN bRequest.preClear
       ELSE tRequest.preClear

\* C8 (as stated): no OnBlockReceived or OnTxReceived that comes after a
\* Clear call adds to the finished pool a unit of a block request or group
\* that was in flight when Clear was called.
C8_NoCompletionOnceClearCalled ==
    [][~CompletesStale]_vars

\* C8 (amended): once Clear has returned, no OnBlockReceived or OnTxReceived
\* adds to the finished pool a unit of a block request or group that was in
\* flight when that Clear was called.
C8_NoStaleCompletion ==
    [][cpc = "idle" => ~CompletesStale]_vars

\* Clear has returned after discarding a group that was pending at the call,
\* a late transaction of that group was then received and rejected, and
\* nothing was finished
C8_Witness ==
    /\ cpc = "idle"
    /\ tpc = "idle"
    /\ tStale
    /\ tRet = "error"
    /\ finished = <<>>

\* no pending transaction request asks for t
Unsolicited(t) ==
    \A b \in DOMAIN blockTxsRequests :
        t \notin DOMAIN blockTxsRequests[b].txRequestQueue

\* C9: OnBlockReceived for a block that is not pending, and OnTxReceived for
\* a transaction no pending request asks for, return nil, release no slot
\* and change no pending map.
C9_UnknownReceiptIsBenign ==
    [][/\ \A b \in Hash, txIds \in SUBSET Tx :
             (OnBlockReceived_Lookup(b, txIds) /\ b \notin DOMAIN blockRequests)
                => /\ bpc' = "idle"
                   /\ UNCHANGED <<blocksQueue, blockTxsQueue, blockRequests,
                                  blockTxsRequests>>
       /\ \A t \in Tx :
             (OnTxReceived_Lookup(t) /\ Unsolicited(t))
                => /\ tpc' = "idle"
                   /\ tRet' = "nil"
                   /\ UNCHANGED <<blocksQueue, blockTxsQueue, blockRequests,
                                  blockTxsRequests>>]_vars

\* C10: every step leaves the finished pool as it was or adds one unit at its
\* end, with one OnRequestFinished call of the handler that is handed the
\* whole pool; every completed unit is added; Clear changes nothing of it.
C10_PoolOnlyGrows ==
    [][/\ IsPrefix(finished, finished')
       /\ Len(finished') <= Len(finished) + 1
       /\ IF finished' # finished
          THEN finishedCalls' = finishedCalls + 1 /\ lastPool' = finished'
          ELSE UNCHANGED <<finishedCalls, lastPool>>
       /\ (bpc = "release" /\ bpc' = "idle")
             => finished' = Append(finished, bBlock)
       /\ (tpc = "release" /\ tpc' = "idle")
             => finished' = Append(finished, tRequest.block)
       /\ cpc' # cpc => finished' = finished]_vars

\* Clear is about to return while the pool holds two finished units
C10_Witness ==
    /\ cpc = "lockBlockTxsReqs"
    /\ Len(finished) = 2
    /\ finishedCalls = 2


\* the last Blockchain call was a CommitBlock that returned without error
CommitBlockReturnedOk ==
    kpc = "idle" /\ kRet.op = "CommitBlock" /\ ~kRet.err

\* C11: whenever a CommitBlock call, with or without a rollback inside it,
\* has returned without error, Height() is the height of the last header of
\* the headers store and is the persisted chain-height marker.
C11_HeightConsistency ==
    CommitBlockReturnedOk =>
        /\ ~HeadersEmpty(headers)
        /\ Height = headers[Len(headers)].height
        /\ Height = chainHeight

\* a CommitBlock that rolled headers back has returned without error
C11_Witness == CommitBlockReturnedOk /\ spawned.rollback > 0

\* C12: after CommitBlock calls that each named an already stored header as
\* the incoming header's previous, every stored header's previous is the hash
\* of the header directly below it and heights strictly increase from the
\* bottom of the store to the tip.
C12_SingleCanonicalChain ==
    (kpc = "idle" /\ knownPrevious) =>
        \A i \in 2..Len(headers) :
            /\ headers[i].previous = headers[i - 1].hash
            /\ headers[i].height > headers[i - 1].height

\* C13: no outpoint is in the UTXO table and in the STXO table at once, in
\* any state, also when a transaction is committed first unconfirmed (height
\* 0) and later inside a block after one of its outputs was spent.
C13_NoDoubleState == DOMAIN utxos \cap DOMAIN stxos = {}

\* one commitTxn(height, txn) that started `started` OnTxCommit calls and
\* reported `reported`: a transaction that matches nothing changes no table
\* and is reported; any other gets its Txn record and one OnTxCommit
Accounted(txn, height, started, reported) ==
    IF NoMatch(txn)
    THEN /\ UNCHANGED <<utxos, stxos, txns>>
         /\ started = 0
         /\ reported
    ELSE /\ txn.txId \in DOMAIN txns'
         /\ txns'[txn.txId] = ToTxn(txn, height)
         /\ started = 1
         /\ ~reported

\* C14: a transaction with no watched output and no input spending a stored
\* UTXO leaves the UTXO and STXO tables unchanged, gets no Txn record and no
\* OnTxCommit call and is reported as a false positive; every other
\* transaction gets a Txn record and one OnTxCommit call; a successful
\* CommitBlock returns exactly the number of its transactions that matched
\* nothing.
C14_FalsePositiveAccounting ==
    [][/\ \A txn \in Transactions :
              CommitUnconfirmedTxn(txn) =>
                  Accounted(txn, 0, spawned'.txCommit, kRet'.falsePositive)
       /\ CommitBlock_Txn =>
              Accounted(Head(kTxns), kHeader.height,
                        spawned'.txCommit - spawned.txCommit,
                        fPositives' = fPositives + 1)
       /\ (kpc = "commitTxn" /\ kpc' = "idle") =>
              /\ ~kRet'.err
              /\ kRet'.falsePositives = unmatched]_vars

\* a CommitBlock has returned a false positive for one of its transactions
\* and has recorded the other
C14_Witness ==
    /\ CommitBlockReturnedOk
    /\ kRet.falsePositives = 1
    /\ spawned.txCommit = 1

HeightOf(hash) ==
    headers[CHOOSE i \in 1..Len(headers) : headers[i].hash = hash].height

RECURSIVE Pow2(_)
Pow2(k) == IF k = 0 THEN 1 ELSE 2 * Pow2(k - 1)

\* the step back taken after the i-th locator entry: 1, doubled after every
\* 9 entries
StepAfter(i) == Pow2((i - 1) \div 9)

\* C16: on a non-empty chain the locator's first entry is the tip hash, it
\* has at most 200 entries, and heights strictly decrease along it, by a
\* step of 1 that doubles after every 9 entries, until the next step would
\* leave the chain; on an empty chain the locator is empty.
C16_LocatorCorrectness ==
    lpc = "done" =>
        IF HeadersEmpty(headers)
        THEN ret = <<>>
        ELSE /\ Len(ret) >= 1
             /\ ret[1] = GetTip(headers).hash
             /\ Len(ret) <= MaxBlockLocatorHashes
             /\ \A i \in 1..(Len(ret) - 1) :
                    /\ HeightOf(ret[i + 1]) < HeightOf(ret[i])
                    /\ HeightOf(ret[i]) - HeightOf(ret[i + 1]) = StepAfter(i)
             /\ \/ Len(ret) = MaxBlockLocatorHashes
                \/ HeightOf(ret[Len(ret)]) < StepAfter(Len(ret))

\* a locator of 20 entries: steps of 1, of 2 and one of 4
C16_Witness == lpc = "done" /\ Len(ret) = 20

\* the base-256 digit of weight 256^i of |mantissa * 256^(exponent - 3)|,
\* the target that header.Bits stands for
TargetDigit(i) ==
    LET j == i - bits[1] + 3
    IN  IF j = 0 THEN bits[4]
        ELSE IF j = 1 THEN bits[3]
        ELSE IF j = 2 THEN bits[2] % 128
        ELSE 0

\* the digit of weight 256^i of the hash read as a little-endian number
HashDigit(i) == IF i <= 31 THEN auxHash[i + 1] ELSE 0

\* no digit of either number has a weight above 256^TopDigit
TopDigit == bits[1] + 32

TargetIsZero == \A i \in 0..TopDigit : TargetDigit(i) = 0

TargetIsNegative == bits[2] >= 128 /\ ~TargetIsZero

\* the target is above 2^255 - 1
TargetAboveLimit ==
    \/ \E i \in 32..TopDigit : TargetDigit(i) > 0
    \/ TargetDigit(31) >= 128

HashAboveTarget ==
    \E k \in 0..TopDigit :
        /\ HashDigit(k) > TargetDigit(k)
        /\ \A j \in (k + 1)..TopDigit : HashDigit(j) = TargetDigit(j)

\* C17: CheckProofOfWork returns an error exactly when the target that the
\* header's Bits stand for is zero or negative, or is above 2^255 - 1, or
\* the parent-block hash, read as a little-endian number, is above the
\* target (a hash equal to the target passes); the call changes nothing but
\* its own result.
C17_ProofOfWork ==
    [][(wpc = "idle" /\ wpc' = "done") =>
           /\ powErr' # "nil" <=>
                  \/ TargetIsZero
                  \/ TargetIsNegative
                  \/ TargetAboveLimit
                  \/ HashAboveTarget
           /\ UNCHANGED <<bits, auxHash, storeVars, commitVars, locatorVars,
                          requestQueueVars>>]_vars

\* a hash equal to a target with 32 digits has passed
C17_Witness ==
    /\ wpc = "done"
    /\ powErr = "nil"
    /\ bits[1] = 32
    /\ \A i \in 0..31 : HashDigit(i) = TargetDigit(i)
    /\ HashDigit(0) = 0
    /\ HashDigit(29) = 1

\* C18: the block request for a hash taken from the intake queue goes to the
\* peer that was passed to the PushHashes call that put the hash there.
C18_DispatchedToPushPeer ==
    spc["worker"] # "idle" => sPeer["worker"] = sOrigin["worker"]

\* C19: whenever IsRunning() is false the worker holds no hash, no block
\* request is pending and no block-transaction group is pending.
C19_NotRunningIsQuiescent ==
    ~IsRunning =>
        /\ spc["worker"] = "idle"
        /\ DOMAIN blockRequests = {}
        /\ DOMAIN blockTxsRequests = {}

\* a step of Clear, or of an operation that has been called and has not
\* returned: the PushHashes in progress, the worker, the receive-path calls
\* past their lookup
StepOfCallInProgress ==
    \/ Clear_HashesLen
    \/ Clear_HashesRecv
    \/ Clear_BlocksLen
    \/ Clear_BlocksRecv
    \/ Clear_BlockTxsLen
    \/ Clear_BlockTxsRecv
    \/ Clear_BlockRequests
    \/ Clear_BlockTxsRequests
    \/ PushHashes_Send
    \/ start
    \/ StartBlockRequest_Check("worker")
    \/ StartBlockRequest_Send("worker")
    \/ StartBlockRequest_Register("worker")
    \/ OnBlockReceived_Release
    \/ StartBlockTxsRequest_Check
    \/ StartBlockTxsRequest_Send
    \/ StartBlockTxsRequest_Register
    \/ OnTxReceived_Release

\* C20: Clear() never waits forever on a queue receive or on a lock: while a
\* Clear call has not returned, Clear itself or a call in progress that it
\* may be waiting for can take a step.
C20_ClearNeverWaitsForever == cpc # "idle" => ENABLED StepOfCallInProgress

====
